---- MODULE Spec2Model ----
(***************************************************************************)
(* State-machine model of the VideoUploadForm component                    *)
(* (frontend/src/components/VideoUploadForm.jsx): the form state, the      *)
(* uploadInProgress ref, the uploadVideo calls in flight, the polling      *)
(* effect with its interval and the getTaskStatus calls in flight.         *)
(*                                                                         *)
(* Every handler runs to completion on the single UI thread, so each       *)
(* handler (or each continuation after an await) is one atomic action.     *)
(* A state update that changes taskId re-runs the polling effect in the    *)
(* same action: React flushes the effect before the next event is handled. *)
(* The dragOver flag and the description field only feed the rendering and *)
(* the uploadVideo arguments and are left out.                             *)
(***************************************************************************)
EXTENDS Integers, Sequences, FiniteSets, TLC

\* ------------------------------------------------------------------ bounds
\* uploadVideo calls made in one behaviour
MaxUploads == 3
\* intervals the polling effect creates in one behaviour
MaxIntervals == 2
\* getTaskStatus calls in flight at once
MaxInFlight == 2

\* ------------------------------------------------------- sizes, in bytes
\* A size is <<m, b>> = m * 2^20 + b bytes with 0 <= b < 2^20: the byte
\* counts at stake (15 * 1024^3) exceed the integers TLC computes with.
Bytes(m, b) == <<m, b>>
SizeGt(s, limit) == s[1] > limit[1] \/ (s[1] = limit[1] /\ s[2] > limit[2])

\* 15 * 1024 * 1024 * 1024
UploadLimit == Bytes(15 * 1024, 0)
\* 1024 * 1024 * 1024
WarnLimit == Bytes(1024, 0)

\* file.size > 15 * 1024 * 1024 * 1024, with the off-by-one slip >=
TooLargeInclusive(size) == ~SizeGt(UploadLimit, size)
TooLarge(size) == SizeGt(size, UploadLimit)
\* selectedFile.size > 1024 * 1024 * 1024, with the off-by-one slip >=
IsLargeInclusive(size) == ~SizeGt(WarnLimit, size)
IsLarge(size) == SizeGt(size, WarnLimit)

\* ------------------------------------------------------------- inputs
NoFile == <<>>
File(size) == <<size>>
Sizes == { Bytes(1024, 0), Bytes(15 * 1024, 0), Bytes(15 * 1024, 1) }
Names == { "", "lecture" }
\* task_id values the backend may answer with ("" stands for any falsy id)
TaskIds == { "", "a", "b" }

\* err of a rejected request: status 0 = no err.response; "" = field absent
Err(status, detail, message) == [status |-> status, detail |-> detail, message |-> message]
UploadErrs ==
  { Err(507, "quota exceeded", "Request failed with status code 507"),
    Err(413, "body too big", "Request failed with status code 413"),
    Err(500, "codec error", "Request failed with status code 500"),
    Err(500, "", "Request failed with status code 500"),
    Err(0, "", "") }
PollErrs ==
  { Err(404, "task not found", "Request failed with status code 404"),
    Err(0, "", "") }

\* body of a getTaskStatus answer: "" = field absent, -1 = progress absent
Resp(status, prog, op, err) == [status |-> status, progress |-> prog, current_operation |-> op, error |-> err]
Responses ==
  { Resp("processing", 50, "transcoding", ""),
    Resp("", -1, "", ""),
    Resp("completed", 100, "done", ""),
    Resp("failed", -1, "", "disk full"),
    Resp("failed", -1, "", "") }
\* progress events of the transfer: <<loaded, total>>
ProgressEvents == { <<5, 8>> }

\* ------------------------------------------------------------- helpers
\* t(key, fallback): the text shown for key
T(key, fallback) == fallback
\* a || b on strings
Or(a, b) == IF a # "" THEN a ELSE b
\* n || 0 on an optional number
OrZero(n) == IF n = -1 THEN 0 ELSE n
\* Math.round((loaded * 100) / total)
PercentCompleted(ev) == (2 * ev[1] * 100 + ev[2]) \div (2 * ev[2])

PleaseSelectFile == T("pleaseSelectFile", "Please select a video file.")
FileTooLarge == T("fileTooLarge", "File size exceeds the maximum allowed (15 GB).")
UploadBusy == T("uploadInProgress", "Upload already in progress, please wait.")
StartingUpload == T("startingUpload", "Starting upload...")
ProcessingVideo == T("processingVideo", "Processing video...")
NoSpaceLeft == T("noSpaceLeft", "Server disk space is full. Please try again later or contact administrator.")
ServerTooLarge == T("fileTooLarge", "File size is too large for server to process.")
UploadFailed == T("uploadFailed", "Upload failed.")
ProcessingFailed == T("processingFailed", "Processing failed")
StatusCheckFailed == T("statusCheckFailed", "Failed to check upload status.")
LargeFileWarning == T("largeFileWarning", "You're uploading a large file. It might take a while to process.")

\* the catch of handleUpload, with the slip of reading the body first
UploadErrorMessageBodyFirst(err) ==
  IF err.detail # "" THEN err.detail
  ELSE IF err.status = 507 THEN NoSpaceLeft
  ELSE IF err.status = 413 THEN ServerTooLarge
  ELSE Or(err.message, UploadFailed)
\* the catch of handleUpload, with the slip of no fallback text
UploadErrorMessageNoFallback(err) ==
  IF err.status = 507 THEN NoSpaceLeft
  ELSE IF err.status = 413 THEN ServerTooLarge
  ELSE Or(err.detail, err.message)
UploadErrorMessage(err) ==
  IF err.status = 507 THEN NoSpaceLeft
  ELSE IF err.status = 413 THEN ServerTooLarge
  ELSE Or(Or(err.detail, err.message), UploadFailed)

\* the message of a "failed" status, with the slip of dropping the reason
FailedMessageNoReason(resp) == ProcessingFailed \o ": "
FailedMessage(resp) == ProcessingFailed \o ": " \o Or(resp.error, "")

\* the message of a failed status query, with the slip of no fallback text
StatusErrorMessageNoFallback(err) == Or(err.detail, err.message)
StatusErrorMessage(err) == Or(Or(err.detail, err.message), StatusCheckFailed)

\* ------------------------------------------------------------- state
VARIABLES
  mounted,           \* the component is mounted
  file, name,        \* useState: file, name
  taskId, progress, statusText, error, uploadWarning, uploadProgress,
  uploadInProgress,  \* useRef: uploadInProgress.current
  nUploads,          \* uploadVideo calls made so far; call u is the u-th
  uploads,           \* uploadVideo calls whose promise is pending
  interval,          \* `interval` of the last run of the effect, 0 = undefined
  closures,          \* closures[i]: what the callback of interval i captured
  timers,            \* intervals the browser still fires
  pending,           \* pending[i]: getTaskStatus calls of interval i in flight
  live,              \* history: accepted uploads that have not ended
  cleared,           \* history: uploads on whose behalf a poll answer turned
                     \* uploadInProgress from true to false
  halted             \* history: uploads whose polling a failed query ended,
                     \* emptied when a later submission is accepted

formVars == <<file, name, uploadWarning>>
viewVars == <<progress, statusText, error, uploadProgress>>
effectVars == <<interval, closures, timers>>
histVars == <<live, cleared, halted>>
vars == <<mounted, file, name, taskId, progress, statusText, error, uploadWarning,
          uploadProgress, uploadInProgress, nUploads, uploads, interval, closures,
          timers, pending, live, cleared, halted>>

UploadIds == 1..MaxUploads
IntervalIds == 1..MaxIntervals
InFlight == LET Sum[i \in 0..MaxIntervals] == IF i = 0 THEN 0 ELSE pending[i] + Sum[i - 1]
            IN Sum[MaxIntervals]

Init ==
  /\ mounted = TRUE
  /\ file = NoFile /\ name = ""
  /\ taskId = "" /\ progress = 0 /\ statusText = "" /\ error = ""
  /\ uploadWarning = "" /\ uploadProgress = 0
  /\ uploadInProgress = FALSE
  /\ nUploads = 0 /\ uploads = {}
  /\ interval = 0 /\ closures = <<>> /\ timers = {}
  /\ pending = [i \in IntervalIds |-> 0]
  /\ live = {} /\ cleared = {}
  /\ halted = {}

\* ------------------------------------------------------ the polling effect
\* the cleanup the effect returned: if (interval) clearInterval(interval),
\* with the slip of returning no cleanup
CleanupMissing(ts) == ts
Cleanup(ts) == IF interval # 0 THEN ts \ {interval} ELSE ts

\* clearInterval(interval) in the callback of interval i
ClearInterval(i, ts) == ts \ {i}

\* The effect runs again (its dependencies [taskId, t] changed): the previous
\* cleanup runs, then setInterval when the tracked identifier is truthy.
CanRunEffect(tid) == tid # "" => Len(closures) < MaxIntervals
\* with the slip of leaving out `if (taskId)`: setInterval on every run
RunEffectUnguarded(tid, owner) ==
  /\ closures' = Append(closures, [taskId |-> tid, owner |-> owner])
  /\ interval' = Len(closures) + 1
  /\ timers' = Cleanup(timers) \cup {Len(closures) + 1}
RunEffect(tid, owner) ==
  IF tid # ""
  THEN /\ closures' = Append(closures, [taskId |-> tid, owner |-> owner])
       /\ interval' = Len(closures) + 1
       /\ timers' = Cleanup(timers) \cup {Len(closures) + 1}
  ELSE /\ closures' = closures
       /\ interval' = 0
       /\ timers' = Cleanup(timers)

\* ------------------------------------------------------------ the form
SelectFile(size) ==
  /\ file' = File(size)
  /\ uploadWarning' = IF IsLarge(size) THEN LargeFileWarning ELSE ""

handleFileChange ==
  /\ mounted
  /\ \E size \in Sizes : SelectFile(size)
  /\ UNCHANGED <<mounted, name, taskId, viewVars, uploadInProgress, nUploads, uploads,
                 effectVars, pending, histVars>>

handleDrop ==
  /\ mounted
  /\ \E size \in Sizes : SelectFile(size)
  /\ UNCHANGED <<mounted, name, taskId, viewVars, uploadInProgress, nUploads, uploads,
                 effectVars, pending, histVars>>

setName ==
  /\ mounted
  /\ \E n \in Names : name' = n
  /\ UNCHANGED <<mounted, file, uploadWarning, taskId, viewVars, uploadInProgress,
                 nUploads, uploads, effectVars, pending, histVars>>

\* AlertMessage onClose
closeAlert ==
  /\ mounted
  /\ error' = ""
  /\ UNCHANGED <<mounted, formVars, taskId, progress, statusText, uploadProgress,
                 uploadInProgress, nUploads, uploads, effectVars, pending, histVars>>

\* handleUpload up to its await, with the slip of resetting the label and the
\* progress values before the validation instead of after the busy guard
handleUploadResetFirst ==
  /\ mounted
  /\ statusText' = StartingUpload
  /\ progress' = 0
  /\ uploadProgress' = 0
  /\ IF file = NoFile
     THEN /\ error' = PleaseSelectFile
          /\ UNCHANGED <<uploadWarning, uploadInProgress, nUploads, uploads, live, halted>>
     ELSE IF TooLarge(file[1])
     THEN /\ error' = FileTooLarge
          /\ UNCHANGED <<uploadWarning, uploadInProgress, nUploads, uploads, live, halted>>
     ELSE IF uploadInProgress
     THEN /\ uploadWarning' = UploadBusy
          /\ UNCHANGED <<error, uploadInProgress, nUploads, uploads, live, halted>>
     ELSE /\ nUploads < MaxUploads
          /\ uploadInProgress' = TRUE
          /\ nUploads' = nUploads + 1
          /\ uploads' = uploads \cup {nUploads + 1}
          /\ live' = live \cup {nUploads + 1}
          /\ halted' = {}
          /\ UNCHANGED <<error, uploadWarning>>
  /\ UNCHANGED <<mounted, file, name, taskId, effectVars, pending, cleared>>

\* handleUpload up to its await
handleUpload ==
  /\ mounted
  /\ IF file = NoFile
     THEN /\ error' = PleaseSelectFile
          /\ UNCHANGED <<uploadWarning, statusText, progress, uploadProgress,
                         uploadInProgress, nUploads, uploads, live, halted>>
     ELSE IF TooLarge(file[1])
     THEN /\ error' = FileTooLarge
          /\ UNCHANGED <<uploadWarning, statusText, progress, uploadProgress,
                         uploadInProgress, nUploads, uploads, live, halted>>
     ELSE IF uploadInProgress
     THEN /\ uploadWarning' = UploadBusy
          /\ UNCHANGED <<error, statusText, progress, uploadProgress,
                         uploadInProgress, nUploads, uploads, live, halted>>
     ELSE /\ nUploads < MaxUploads
          /\ uploadInProgress' = TRUE
          /\ statusText' = StartingUpload
          /\ progress' = 0
          /\ uploadProgress' = 0
          /\ nUploads' = nUploads + 1
          /\ uploads' = uploads \cup {nUploads + 1}
          /\ live' = live \cup {nUploads + 1}
          /\ halted' = {}
          /\ UNCHANGED <<error, uploadWarning>>
  /\ UNCHANGED <<mounted, file, name, taskId, effectVars, pending, cleared>>

\* the onUploadProgress callback of the transfer of upload u
uploadProgressEvent(u) ==
  /\ u \in uploads
  /\ \E ev \in ProgressEvents :
       IF mounted
       THEN /\ uploadProgress' = PercentCompleted(ev)
            /\ statusText' = T("uploadingProgress",
                               "Uploading: " \o ToString(PercentCompleted(ev)) \o "%")
       ELSE UNCHANGED <<uploadProgress, statusText>>
  /\ UNCHANGED <<mounted, formVars, taskId, progress, error, uploadInProgress,
                 nUploads, uploads, effectVars, pending, histVars>>

\* history: setTaskId with the identifier already tracked runs no effect; the
\* task the latest interval polls is from now on upload u's task
Reowned(u) == IF interval # 0 THEN [closures EXCEPT ![interval].owner = u] ELSE closures

\* uploadVideo of upload u resolves with { task_id: tid }
uploadResolve(u, tid) ==
  /\ u \in uploads
  /\ uploads' = uploads \ {u}
  /\ IF mounted
     THEN /\ taskId' = tid
          /\ statusText' = ProcessingVideo
          /\ IF tid # taskId
             THEN CanRunEffect(tid) /\ RunEffect(tid, u)
             ELSE /\ closures' = Reowned(u)
                  /\ UNCHANGED <<interval, timers>>
     ELSE UNCHANGED <<taskId, statusText, effectVars>>
  /\ UNCHANGED <<mounted, formVars, progress, error, uploadProgress, uploadInProgress,
                 nUploads, pending, histVars>>

\* uploadVideo of upload u rejects with err (or resolves with no body, and
\* reading res.task_id throws): the catch of handleUpload
uploadReject(u, err) ==
  /\ u \in uploads
  /\ uploads' = uploads \ {u}
  /\ uploadInProgress' = FALSE
  /\ error' = IF mounted THEN UploadErrorMessage(err) ELSE error
  /\ live' = live \ {u}
  /\ UNCHANGED <<mounted, formVars, taskId, progress, statusText, uploadProgress,
                 nUploads, effectVars, pending, cleared, halted>>

\* ------------------------------------------------------------ polling
\* interval i fires: its callback calls getTaskStatus(taskId)
tick(i) ==
  /\ i \in timers
  /\ InFlight < MaxInFlight
  /\ pending' = [pending EXCEPT ![i] = @ + 1]
  /\ UNCHANGED <<mounted, formVars, taskId, viewVars, uploadInProgress, nUploads,
                 uploads, effectVars, histVars>>

\* statusRes.status === "completed" / "failed", with the slip of ending on
\* every status but a known in-progress tag
TerminalUnlessProcessing(resp) == resp.status # "processing"
Terminal(resp) == resp.status \in {"completed", "failed"}
NoteCleared(i) == IF uploadInProgress THEN cleared \cup {closures[i].owner} ELSE cleared

\* a getTaskStatus call of interval i resolves with resp
pollResponse(i, resp) ==
  /\ pending[i] > 0
  /\ pending' = [pending EXCEPT ![i] = @ - 1]
  /\ progress' = IF mounted THEN OrZero(resp.progress) ELSE progress
  /\ statusText' = IF mounted THEN Or(resp.current_operation, "") ELSE statusText
  /\ IF Terminal(resp)
     THEN /\ timers' = ClearInterval(i, timers)
          /\ uploadInProgress' = FALSE
          /\ live' = live \ {closures[i].owner}
          /\ cleared' = NoteCleared(i)
     ELSE UNCHANGED <<timers, uploadInProgress, live, cleared>>
  /\ error' = IF mounted /\ resp.status = "failed" THEN FailedMessage(resp) ELSE error
  /\ UNCHANGED <<mounted, formVars, taskId, uploadProgress, nUploads, uploads,
                 interval, closures, halted>>

\* a getTaskStatus call of interval i rejects with err (or resolves with no
\* body, and reading statusRes.progress throws): the catch of the callback
pollReject(i, err) ==
  /\ pending[i] > 0
  /\ pending' = [pending EXCEPT ![i] = @ - 1]
  /\ timers' = ClearInterval(i, timers)
  /\ uploadInProgress' = FALSE
  /\ error' = IF mounted THEN StatusErrorMessage(err) ELSE error
  /\ live' = live \ {closures[i].owner}
  /\ cleared' = NoteCleared(i)
  /\ halted' = halted \cup {closures[i].owner}
  /\ UNCHANGED <<mounted, formVars, taskId, progress, statusText, uploadProgress,
                 nUploads, uploads, interval, closures>>

\* useTranslation hands out another t (the language changed, or the hook
\* builds t anew): the effect's dependency changed, so it runs again
translationChange ==
  /\ mounted
  /\ taskId # ""
  /\ CanRunEffect(taskId)
  /\ RunEffect(taskId, closures[interval].owner)
  /\ UNCHANGED <<mounted, formVars, taskId, viewVars, uploadInProgress, nUploads,
                 uploads, pending, histVars>>

\* the component unmounts: the effect's cleanup runs and the component's
\* state is gone (its variables go back to their initial values and no
\* state update reaches them any more); the ref, the closures and the
\* requests in flight live on
teardown ==
  /\ mounted
  /\ mounted' = FALSE
  /\ timers' = Cleanup(timers)
  /\ file' = NoFile /\ name' = "" /\ uploadWarning' = ""
  /\ taskId' = "" /\ progress' = 0 /\ statusText' = "" /\ error' = ""
  /\ uploadProgress' = 0
  /\ UNCHANGED <<uploadInProgress, nUploads, uploads, interval, closures, pending,
                 histVars>>

\* ------------------------------------------------------ specifications
UploadResolves == \E u \in UploadIds, tid \in TaskIds : uploadResolve(u, tid)
UploadRejects == \E u \in UploadIds, err \in UploadErrs : uploadReject(u, err)
UploadProgresses == \E u \in UploadIds : uploadProgressEvent(u)
Ticks == \E i \in IntervalIds : tick(i)
PollResponses == \E i \in IntervalIds, resp \in Responses : pollResponse(i, resp)
PollRejects == \E i \in IntervalIds, err \in PollErrs : pollReject(i, err)

\* ---------------------------------------------------------------- claims
\* in a step: the intervals one of whose status queries is answered, and the
\* uploads whose transfer ends; the "failed" answers
Answered == { j \in IntervalIds : pending'[j] < pending[j] }
Settled == uploads \ uploads'
FailedResponses == { r \in Responses : r.status = "failed" }

\* C1: at most one upload is outstanding: no submission calls uploadVideo
\* while an earlier accepted upload has not ended (by a terminal status, a
\* failed status query or a failed transfer), so never two uploads are live.
C1_AtMostOneUploadOutstanding == Cardinality(live) <= 1

\* C2: a submission with no file, or with a file of more than 15 * 1024^3
\* bytes, sets an error message and calls uploadVideo in no state; a file of
\* exactly 15 * 1024^3 bytes passes this check (and starts the upload when
\* none is in progress).
C2_MissingOrOversizedRejected ==
  [][ /\ (handleUpload /\ (file = NoFile \/ SizeGt(file[1], Bytes(15 * 1024, 0))))
         => /\ nUploads' = nUploads /\ uploads' = uploads
            /\ uploadInProgress' = uploadInProgress
            /\ error' = (IF file = NoFile THEN "Please select a video file."
                         ELSE "File size exceeds the maximum allowed (15 GB).")
      /\ (handleUpload /\ file = File(Bytes(15 * 1024, 0)))
         => /\ error' = error
            /\ ~uploadInProgress => (nUploads' = nUploads + 1 /\ nUploads + 1 \in uploads')
    ]_vars
\* an oversized file was refused while an upload was in progress
C2_Witness ==
  /\ file = File(Bytes(15 * 1024, 1))
  /\ error = "File size exceeds the maximum allowed (15 GB)."
  /\ uploadInProgress /\ nUploads = 1 /\ uploads = {1}

\* C3: a submission with an empty display name never calls uploadVideo and
\* never sets the busy flag.
C3_EmptyNameRejected ==
  [][ (handleUpload /\ name = "")
      => (nUploads' = nUploads /\ uploads' = uploads /\ uploadInProgress' = uploadInProgress) ]_vars

\* C4: the poll timer is active only after an upload resolved with a task
\* identifier, it queries the identifier the most recent resolved upload
\* returned (the tracked one), and it is never active while an uploadVideo
\* transfer is outstanding.
C4_PollingOnlyAfterUpload ==
  /\ timers # {} => (taskId # "" /\ nUploads > Cardinality(uploads))
  /\ \A i \in timers : closures[i].taskId = taskId
  /\ uploads # {} => timers = {}

\* C5: the busy flag goes from set to cleared at most once on behalf of one
\* upload's task, however many status queries are in flight: no poll answer
\* clears it for an upload it was already cleared for.
C5_BusyClearedOncePerUpload ==
  [][ \A i \in Answered :
        (uploadInProgress /\ ~uploadInProgress') => closures[i].owner \notin cleared ]_vars

\* C6: handling a poll answer with status "failed" and error text E cancels
\* the interval whose callback handled it (so no poll timer is left when that
\* is the interval of the latest effect run), leaves the busy flag false and
\* (in the mounted component) sets the error message to the 'Processing
\* failed' prefix followed by ": " and by E, or by nothing when E is absent.
C6_FailedStatusSurfaced ==
  [][ \A i \in Answered, resp \in FailedResponses :
        pollResponse(i, resp)
        => /\ i \notin timers'
           /\ i = interval => timers' = {}
           /\ ~uploadInProgress'
           /\ mounted => error' = "Processing failed" \o ": " \o resp.error ]_vars
\* the answer {status: "failed", error: "disk full"} was handled
C6_Witness ==
  /\ mounted /\ error = "Processing failed: disk full"
  /\ ~uploadInProgress /\ timers = {} /\ nUploads = 1 /\ uploads = {}

\* C7: a failed status query cancels the interval, sets an error message and
\* clears the busy flag, and no status query is issued afterwards for that
\* upload's task unless a new upload is accepted.
C7_NoQueryAfterQueryFailure ==
  [][ /\ \A i \in Answered, err \in PollErrs :
           pollReject(i, err)
           => (i \notin timers' /\ ~uploadInProgress' /\ (mounted => error' # ""))
      /\ \A j \in timers : tick(j) => closures[j].owner \notin halted ]_vars

\* C8: tearing the component down, or changing the tracked task identifier,
\* while a poll timer is active cancels that timer, and afterwards a status
\* query is only ever issued by the interval of the latest effect run, for
\* the identifier then tracked, in the mounted component.
C8_CleanupStopsPolling ==
  [][ /\ teardown => timers' = {}
      /\ (taskId' # taskId /\ interval # 0) => interval \notin timers'
      /\ \A i \in IntervalIds :
           pending'[i] > pending[i]
           => (mounted /\ i = interval /\ closures[i].taskId = taskId) ]_vars
\* torn down while the timer of a still unfinished upload was polling
C8_Witness ==
  /\ ~mounted /\ interval # 0 /\ timers = {}
  /\ uploadInProgress /\ live = {closures[interval].owner}
  /\ pending[interval] > 0

\* C9: a failed transfer, a failed status query and a "failed" status each
\* leave the busy flag false and (in the mounted component) an error message
\* set, and a submit with a valid file made while the busy flag is false
\* starts a new uploadVideo call.
C9_ErrorsReleaseBusy ==
  [][ /\ \A u \in Settled, err \in UploadErrs :
           uploadReject(u, err) => (~uploadInProgress' /\ (mounted => error' # ""))
      /\ \A i \in Answered, err \in PollErrs :
           pollReject(i, err) => (~uploadInProgress' /\ (mounted => error' # ""))
      /\ \A i \in Answered, resp \in FailedResponses :
           pollResponse(i, resp) => (~uploadInProgress' /\ (mounted => error' # ""))
      /\ (file # NoFile /\ ~uploadInProgress /\ handleUpload)
         => (SizeGt(file[1], Bytes(15 * 1024, 0))
             \/ (nUploads' = nUploads + 1 /\ nUploads + 1 \in uploads' /\ uploadInProgress'))
    ]_vars
\* after a failed status query a new upload was accepted and is in transfer
C9_Witness ==
  /\ error = "Failed to check upload status."
  /\ halted = {} /\ nUploads = 2 /\ uploads = {2} /\ live = {2} /\ uploadInProgress

\* C10: the message of a failed transfer is chosen by HTTP status first: 507
\* gives the storage message and 413 the too-large message whatever the body
\* holds; otherwise the body's detail, else the transport message, else the
\* generic fallback.
C10_UploadErrorByStatusFirst ==
  [][ \A u \in Settled, err \in UploadErrs :
        (mounted /\ uploadReject(u, err))
        => error' =
             (IF err.status = 507
              THEN "Server disk space is full. Please try again later or contact administrator."
              ELSE IF err.status = 413
              THEN "File size is too large for server to process."
              ELSE IF err.detail # "" THEN err.detail
              ELSE IF err.message # "" THEN err.message
              ELSE "Upload failed.") ]_vars
\* a transfer was rejected with status 507 (every such rejection of the
\* model carries a detail in its body)
C10_Witness ==
  /\ mounted /\ ~uploadInProgress /\ nUploads = 1 /\ uploads = {}
  /\ error = "Server disk space is full. Please try again later or contact administrator."
  /\ \A err \in UploadErrs : err.status = 507 => err.detail # ""

\* C11: selecting or dropping a file of more than 1024^3 and at most
\* 15 * 1024^3 bytes sets the large-file warning, and a submit of such a file
\* made while no upload is outstanding calls uploadVideo; selecting or dropping
\* a file of at most 1024^3 bytes clears the warning.
C11_LargeFileWarnedNotBlocked ==
  [][ /\ (handleFileChange \/ handleDrop)
         => /\ (SizeGt(file'[1], Bytes(1024, 0)) /\ ~SizeGt(file'[1], Bytes(15 * 1024, 0)))
               => uploadWarning' = "You're uploading a large file. It might take a while to process."
            /\ ~SizeGt(file'[1], Bytes(1024, 0)) => uploadWarning' = ""
      /\ (file # NoFile /\ live = {} /\ handleUpload
          /\ SizeGt(file[1], Bytes(1024, 0)) /\ ~SizeGt(file[1], Bytes(15 * 1024, 0)))
         => (nUploads' = nUploads + 1 /\ nUploads + 1 \in uploads') ]_vars
\* a file of exactly 15 * 1024^3 bytes was chosen, warned about and submitted
C11_Witness ==
  /\ file = File(Bytes(15 * 1024, 0))
  /\ uploadWarning = "You're uploading a large file. It might take a while to process."
  /\ nUploads = 1 /\ uploads = {1} /\ uploadInProgress

\* C12: polling never resumes after it has ended: once a poll answer with a
\* terminal status, or a failed status query, has been handled for an upload's
\* task (and has released the busy flag), no interval issues a further status
\* query for that task, whatever happens next in the mounted component.
C12_PollingNeverResumes ==
  [][ \A j \in timers : tick(j) => closures[j].owner \notin cleared ]_vars

\* C13: a poll answer whose status is neither "completed" nor "failed" (a
\* missing or unknown status included) is taken as still in progress: it sets
\* progress (0 when the answer has none) and the status label (empty when the
\* answer has none), and leaves the poll timers, the busy flag and the error
\* message as they were.
C13_OtherStatusKeepsPolling ==
  [][ \A i \in Answered, resp \in Responses :
        (resp.status \notin {"completed", "failed"} /\ pollResponse(i, resp))
        => /\ timers' = timers
           /\ uploadInProgress' = uploadInProgress
           /\ error' = error
           /\ mounted => /\ progress' = (IF resp.progress = -1 THEN 0 ELSE resp.progress)
                         /\ statusText' = resp.current_operation ]_vars
\* an answer with no status, no progress and no operation was handled while
\* the first upload's task was polled
C13_Witness ==
  /\ mounted /\ nUploads = 1 /\ uploads = {} /\ uploadInProgress
  /\ timers = {interval} /\ error = ""
  /\ statusText = "" /\ progress = 0

\* C14: no failure is silent: after a submit with no file or with an oversized
\* file, after a rejected transfer (with or without a response, a detail, a
\* message), after a rejected status query and after a poll answer with status
\* "failed", the error message of the mounted component is a non-empty string.
C14_NoSilentFailure ==
  [][ mounted =>
        /\ ((file = NoFile \/ SizeGt(file[1], Bytes(15 * 1024, 0))) /\ handleUpload)
           => error' # ""
        /\ \A u \in Settled : (\E err \in UploadErrs : uploadReject(u, err)) => error' # ""
        /\ \A i \in Answered :
             ((\E err \in PollErrs : pollReject(i, err))
              \/ (\E resp \in FailedResponses : pollResponse(i, resp)))
             => error' # "" ]_vars
\* a transfer was rejected with no response and no message: the generic text
C14_Witness ==
  /\ mounted /\ error = "Upload failed." /\ ~uploadInProgress
  /\ nUploads = 1 /\ uploads = {} /\ live = {}

\* C15: a poll answer, or a failed status query, that arrives after its
\* interval was cancelled (a terminal status was handled or the tracked
\* identifier changed) changes, in the mounted component, neither the busy
\* flag nor progress, the status label or the error message; so it never
\* clears the busy flag of a later upload.
C15_LateAnswerIgnored ==
  [][ \A i \in Answered :
        (mounted /\ i \notin timers)
        => (uploadInProgress' = uploadInProgress /\ progress' = progress
            /\ statusText' = statusText /\ error' = error) ]_vars

\* C16: every accepted submission eventually releases the busy flag: when
\* the transfer ends, the timer keeps firing and the backend eventually answers
\* a status query with a terminal status, a busy flag that is set is
\* eventually cleared (or the component is torn down), whatever task
\* identifier the backend returned.
C16_BusyEventuallyReleased ==
  (mounted /\ uploadInProgress) ~> (~uploadInProgress \/ ~mounted)

\* C17: in every reachable state at most one poll timer is active, one is
\* active only while the tracked task identifier is non-empty, and the
\* identifier its queries carry (the one its callback captured) is the
\* tracked one.
C17_OneTimerForTrackedTask ==
  /\ Cardinality(timers) <= 1
  /\ timers # {} => taskId # ""
  /\ \A i \in timers : closures[i].taskId = taskId
\* the tracked identifier changed: the second interval polls the new one and
\* has a query in flight, the first one is cancelled
C17_Witness ==
  /\ timers = {2} /\ pending[2] > 0
  /\ closures[1].taskId # taskId /\ closures[2].taskId = taskId

\* C18: a rejected submission (no file, an oversized file, or the busy flag
\* set) leaves the busy flag, the tracked task identifier, the upload and the
\* processing progress, the status label and the poll timers unchanged, starts
\* no uploadVideo call, and changes only the error message (no file,
\* oversized) or only the warning message (busy).
C18_RejectedSubmitFrame ==
  [][ ((file = NoFile \/ SizeGt(file[1], Bytes(15 * 1024, 0)) \/ uploadInProgress)
       /\ handleUpload)
      => /\ UNCHANGED <<uploadInProgress, taskId, uploadProgress, progress, statusText,
                        interval, timers, pending, nUploads, uploads, file, name>>
         /\ (file = NoFile \/ SizeGt(file[1], Bytes(15 * 1024, 0)))
            => uploadWarning' = uploadWarning
         /\ (file # NoFile /\ ~SizeGt(file[1], Bytes(15 * 1024, 0)))
            => error' = error ]_vars
\* a submit was refused as busy while the first upload's task was polled and
\* had reported progress
C18_Witness ==
  /\ uploadWarning = "Upload already in progress, please wait."
  /\ uploadInProgress /\ nUploads = 1 /\ uploads = {}
  /\ timers # {} /\ progress = 50 /\ statusText = "transcoding" /\ error = ""

\* the component with a translation function that never changes
NextStableT ==
  \/ handleFileChange \/ handleDrop \/ setName \/ closeAlert \/ handleUpload
  \/ UploadProgresses \/ UploadResolves \/ UploadRejects
  \/ Ticks \/ PollResponses \/ PollRejects
  \/ teardown
SpecStableT == Init /\ [][NextStableT]_vars

\* the same component under a fair timer and a fair network: a pending
\* transfer ends, an active interval fires, and a status query that keeps
\* being asked is eventually answered with a terminal status
TerminalAnswers ==
  \E i \in IntervalIds, resp \in Responses : Terminal(resp) /\ pollResponse(i, resp)
SpecFair ==
  /\ SpecStableT
  /\ WF_vars(UploadResolves \/ UploadRejects)
  /\ WF_vars(Ticks)
  /\ SF_vars(TerminalAnswers)

Next == NextStableT \/ translationChange
Spec == Init /\ [][Next]_vars
====
